---- MODULE Spec2Model ----
(***************************************************************************)
(* Verification model of the energy-trading frontend.                      *)
(*                                                                         *)
(* The module holds one state machine per subsystem; every subsystem has   *)
(* its own specification over the shared variables:                        *)
(*   SpecAuth   api client, token-refresh interceptor, logout,             *)
(*              SessionTimer.extendSession     (src/services/api.ts)       *)
(*   SpecCache  fetchPriceData and its single-slot cache                   *)
(*   SpecSched  useScheduledFetch (variant with maxRetries/retryDelay)     *)
(*   SpecOrder  order form (handleBuyOrder / handleSellOrder, executeTrade)*)
(*   SpecTimer  SessionTimer countdown effect                              *)
(*   SpecProvider  AuthProvider: load, activity tracking, ProtectedRoute   *)
(*   SpecReads  results of the read operations, performance metrics        *)
(*   SpecHook   usePriceData: queued and follow-up fetches                 *)
(*   SpecBattery  the simulated battery and the local trades list          *)
(***************************************************************************)
EXTENDS Integers, Sequences, FiniteSets, TLC

VARIABLES
    \* ---- api client / auth ----
    stored,        \* localStorage 'user': access token of the stored user, or NoUser
    defaultsAuth,  \* api.defaults.headers.common['Authorization'] (token or NoUser)
    ctxUser,       \* AuthContext currentUser (token, NoUser, or NoTokenUser)
    route,         \* current location: "app", "/login", "/login?timeout=true"
    hrefPending,   \* target assigned to window.location.href, "" once the page unloaded
    reqs,          \* requests made through the api client
    ext,           \* SessionTimer.extendSession: "idle" or "inflight"
    issued,        \* number of access tokens the server has issued so far
    loggedOut,     \* history: logout() ran and no login() has succeeded since
    extTok,        \* history: token issued to the last successful extendSession
    \* ---- fetchPriceData ----
    priceDataCache, \* the module-level cache object
    now,            \* Date.now(), in minutes
    calls,          \* invocations of fetchPriceData
    \* ---- useScheduledFetch ----
    sfLoading,      \* state `loading`
    sfError,        \* state `error`: 0 for null, else the identity of the Error
    effDeps,        \* loading/error the scheduling effect last ran with
    timerRef,       \* timerRef.current: a timer id, 0 for null
    timers,         \* pending window timers
    isFetching,     \* isFetchingRef.current, also: fetchFn() is in flight
    retryCount,     \* retryCountRef.current
    mounted,        \* mountedRef.current
    owed,           \* history: time units until the announced retry is due, -1 if none
    autoRetries,    \* history: fetches started by retry timers since the last success
    trigger,        \* history: what started the latest fetch
    \* ---- order form ----
    buyQuantity,    \* state buyQuantity, tenths of a MWh
    sellQuantity,   \* state sellQuantity, tenths of a MWh
    selectedTimeWindow, \* [when: instant of `${date}T${time}:00`, duration: string]
    batteryLevel,   \* batteryState.level, percent
    formNow,        \* current time, in units of 30 seconds
    isSubmitting,   \* state isSubmitting
    pendingOrder,   \* a POST to /api/trades/execute is in flight
    lastPost,       \* argument and body of the latest executeTrade call
    lastAlert,      \* text of the latest alert()
    \* ---- SessionTimer ----
    clock,          \* Date.now(), in seconds
    hasUser,        \* the auth context holds a currentUser
    tokenExp,       \* `exp` of its access token, 0 when the token has none
    intervalOn,     \* the countdown interval is running
    timeRemaining,  \* state timeRemaining in seconds, -1 for null
    showWarning,    \* state showWarning
    logoutCalls,    \* history: handleLogout(true) calls made for this token
    tickSeq,        \* history: parity of the number of interval callbacks run
    \* ---- AuthProvider ----
    apNow,          \* Date.now(), in units of 30 seconds
    apStored,       \* localStorage 'user' as AuthProvider reads it, or NullUser
    apUser,         \* state currentUser, NullUser for null
    apAuth,         \* state isAuthenticated
    apLastActivity, \* state lastActivity
    apDue,          \* time until the activity interval fires, -1 when there is none
    apPath,         \* location the router shows
    apLoaded,       \* the effects of the first commit have run
    apExt,          \* role of the user whose extendSession() is in flight, "" if none
    apIdleSince,    \* history: latest user event or start of the authenticated session
    apCause,        \* history: why handleLogout last ran
    apLoad,         \* history: what the load effect found, fresh until the next event
    apView,         \* history: the latest render of ProtectedRoute and its inputs
    \* ---- read operations ----
    rd,             \* the latest read: function, outcome and value
    performanceMetrics, \* state performanceMetrics of the performance tab
    serverTotals,   \* history: totals in the latest successful metrics response
    \* ---- usePriceData ----
    hkRange,        \* the startDate/endDate the hook was last rendered with
    fetchingRef,    \* fetchingRef.current
    queuedFetchRef, \* queuedFetchRef.current
    hkInFlight,     \* ranges of the fetchPriceData calls that have not settled
    hkFollowUps,    \* pending setTimeout(() => fetchData(), 100) timers
    hkData,         \* range the state `data` was fetched for, "" for the initial []
    hkError,        \* state `error` is set
    hkThrottled,    \* refetch() was called less than 300 s ago
    hkQueuedRange,  \* history: range of the latest call that was queued
    hkQueuedCount,  \* history: calls queued behind the running fetch
    hkLast,         \* history: what ran last
    batteryState,   \* Dashboard's batteryState: level, history, capacity
    trades,         \* Dashboard's trades list, newest first
    batteryActionLoading, \* the loading flag of the battery buttons
    bsPending,      \* updateBatteryLevel calls waiting for their 500 ms timer
    bsCalls,        \* number of updateBatteryLevel calls made
    dashStage       \* "constructed", "mounted" or "crashed"

authVars  == <<stored, defaultsAuth, ctxUser, route, hrefPending, reqs, ext, issued,
               loggedOut, extTok>>
cacheVars == <<priceDataCache, now, calls>>
schedVars == <<sfLoading, sfError, effDeps, timerRef, timers, isFetching, retryCount,
               mounted, owed, autoRetries, trigger>>
orderVars == <<buyQuantity, sellQuantity, selectedTimeWindow, batteryLevel, formNow,
               isSubmitting, pendingOrder, lastPost, lastAlert>>
timerVars == <<clock, hasUser, tokenExp, intervalOn, timeRemaining, showWarning,
               logoutCalls, tickSeq>>
providerVars == <<apNow, apStored, apUser, apAuth, apLastActivity, apDue, apPath,
                  apLoaded, apExt, apIdleSince, apCause, apLoad, apView>>
readVars == <<rd, performanceMetrics, serverTotals>>
hookVars == <<hkRange, fetchingRef, queuedFetchRef, hkInFlight, hkFollowUps, hkData,
              hkError, hkThrottled, hkQueuedRange, hkQueuedCount, hkLast>>
batteryVars == <<batteryState, trades, batteryActionLoading, bsPending, bsCalls,
                 dashStage>>

----------------------------------------------------------------------------
(* Bounds *)
NumReqs    == 2
MaxTokens  == 2
NumCalls   == 1
MaxElapsed == 6
MaxFormClock == 1
MaxSeconds == 66
MaxApClock == 18
MaxFollowUps == 2
MaxQueued == 2
MaxBsCalls == 3

----------------------------------------------------------------------------
(***************************************************************************)
(* api client, response interceptor, refreshToken, logout                  *)
(***************************************************************************)
NoUser      == 0     \* localStorage.getItem('user') === null
NoTokenUser == -2    \* an object without access_token
NullResult  == -1    \* refreshToken() returned null

Reqs   == 1..NumReqs
Tokens == 1..MaxTokens

LoginTimeout == "/login?timeout=true"

\* getCurrentUser(): the parsed stored user, or null
getCurrentUser == stored

\* request interceptor: Authorization header the request is sent with.
\* axios merges api.defaults.headers.common first; the interceptor overrides
\* the header only when a user with an access token is stored.
RequestAuth(user, cfgAuth, dflt) ==
    IF user > 0 THEN user
    ELSE IF cfgAuth # NoUser THEN cfgAuth ELSE dflt

\* faulty variant: the interceptor retries every 401, ignoring the _retry flag
ShouldRefresh_NoRetryFlag(status, retry) == status = 401

\* response interceptor guard: error.response?.status === 401 && !originalRequest._retry
ShouldRefresh(status, retry) == status = 401 /\ ~retry

\* faulty variant: any non-null refresh result is treated as a new token
RefreshUsable_AnyResult(result) == result # NullResult

\* response interceptor: result && result.access_token
RefreshUsable(result) == result # NullResult /\ result # NoTokenUser

InitReq == [st |-> "idle", retry |-> FALSE, sends |-> 0, auth |-> NoUser,
            refreshes |-> 0, rr |-> 0, outcome |-> "none"]

AuthInit ==
    /\ stored = NoUser
    /\ defaultsAuth = NoUser
    /\ ctxUser = NoUser
    /\ route = "/login"
    /\ hrefPending = ""
    /\ reqs = [r \in Reqs |-> InitReq]
    /\ ext = "idle"
    /\ issued = 0
    /\ loggedOut = FALSE
    /\ extTok = NoUser

\* login(): the server accepts the credentials; the response is stored and
\* Login.tsx puts it into the auth context.
Login ==
    /\ issued < MaxTokens
    /\ hrefPending = ""
    /\ issued' = issued + 1
    /\ stored' = issued + 1
    /\ ctxUser' = issued + 1
    /\ route' = "app"
    /\ loggedOut' = FALSE
    /\ extTok' = NoUser
    /\ UNCHANGED <<defaultsAuth, hrefPending, reqs, ext>>

\* AuthContext.handleLogout(isTimeout): logout(), clear context, navigate
HandleLogout(isTimeout) ==
    /\ ctxUser # NoUser
    /\ stored' = NoUser
    /\ ctxUser' = NoUser
    /\ route' = IF isTimeout THEN LoginTimeout ELSE "/login"
    /\ loggedOut' = TRUE
    /\ extTok' = NoUser
    /\ UNCHANGED <<defaultsAuth, hrefPending, reqs, ext, issued>>

\* a component calls api.get/api.post: request interceptor, then the wire
Send(r) ==
    /\ reqs[r].st = "idle"
    /\ reqs' = [reqs EXCEPT ![r].st = "sent",
                            ![r].sends = 1,
                            ![r].auth = RequestAuth(getCurrentUser, NoUser, defaultsAuth)]
    /\ UNCHANGED <<stored, defaultsAuth, ctxUser, route, hrefPending, ext, issued,
                   loggedOut, extTok>>

\* response interceptor, success branch
Respond2xx(r) ==
    /\ reqs[r].st = "sent"
    /\ reqs' = [reqs EXCEPT ![r].st = "resolved", ![r].outcome = "ok"]
    /\ UNCHANGED <<stored, defaultsAuth, ctxUser, route, hrefPending, ext, issued,
                   loggedOut, extTok>>

\* response interceptor, error branch, up to `await refreshToken()`
RespondError(r, status) ==
    /\ reqs[r].st = "sent"
    /\ IF ShouldRefresh(status, reqs[r].retry) /\ getCurrentUser # NoUser
       THEN \* originalRequest._retry = true; refreshToken() posts /api/auth/refresh
            reqs' = [reqs EXCEPT ![r].st = "refreshing",
                                 ![r].retry = TRUE,
                                 ![r].refreshes = @ + 1]
       ELSE reqs' = [reqs EXCEPT ![r].st = "rejected",
                                 ![r].retry = @ \/ ShouldRefresh(status, reqs[r].retry),
                                 ![r].outcome = IF status = 401 THEN "err401" ELSE "errOther"]
    /\ UNCHANGED <<stored, defaultsAuth, ctxUser, route, hrefPending, ext, issued,
                   loggedOut, extTok>>

\* the refresh request completes; result is what refreshToken() returns:
\* a token (response.data.access_token), NoTokenUser (data without a token),
\* or NullResult after its catch block ran logout().
RefreshDone(r, result) ==
    /\ reqs[r].st = "refreshing"
    /\ result \in {NullResult, NoTokenUser, issued + 1}
    /\ result > 0 => issued < MaxTokens
    /\ issued' = IF result > 0 THEN issued + 1 ELSE issued
    /\ IF RefreshUsable(result)
       THEN \* store the result, set the default header, re-send through api()
            /\ stored' = result
            /\ defaultsAuth' = result
            /\ reqs' = [reqs EXCEPT ![r].st = "sent",
                                    ![r].rr = result,
                                    ![r].sends = @ + 1,
                                    ![r].auth = RequestAuth(result, result, result)]
            /\ loggedOut' = loggedOut
            /\ extTok' = NoUser
            /\ UNCHANGED <<route, hrefPending>>
       ELSE \* logout(); window.location.href = '/login?timeout=true'; reject
            /\ stored' = NoUser
            /\ reqs' = [reqs EXCEPT ![r].st = "rejected",
                                    ![r].rr = result,
                                    ![r].outcome = "err401"]
            /\ hrefPending' = LoginTimeout
            /\ loggedOut' = TRUE
            /\ extTok' = NoUser
            /\ UNCHANGED <<defaultsAuth, route>>
    /\ UNCHANGED <<ctxUser, ext>>

\* the navigation started by window.location.href completes: the page is
\* replaced, requests in flight are dropped and module state starts afresh
PageUnload ==
    /\ hrefPending # ""
    /\ hrefPending' = ""
    /\ route' = hrefPending
    /\ reqs' = [r \in Reqs |->
                 IF reqs[r].st \in {"sent", "refreshing"}
                 THEN [reqs[r] EXCEPT !.st = "aborted"] ELSE reqs[r]]
    /\ defaultsAuth' = NoUser
    /\ ctxUser' = NoUser
    /\ ext' = "idle"
    /\ UNCHANGED <<stored, issued, loggedOut, extTok>>

\* SessionTimer.extendSession up to `await refreshToken()`
ExtendStart ==
    /\ ctxUser > 0
    /\ ext = "idle"
    /\ ext' = IF getCurrentUser = NoUser THEN "idle" ELSE "inflight"
    /\ UNCHANGED <<stored, defaultsAuth, ctxUser, route, hrefPending, reqs, issued,
                   loggedOut, extTok>>

\* extendSession after the refresh returned
ExtendDone(result) ==
    /\ ext = "inflight"
    /\ result \in {NullResult, NoTokenUser, issued + 1}
    /\ result > 0 => issued < MaxTokens
    /\ issued' = IF result > 0 THEN issued + 1 ELSE issued
    /\ ext' = "idle"
    /\ IF result # NullResult
       THEN \* if (newToken) setCurrentUser(newToken)
            /\ ctxUser' = result
            /\ extTok' = IF result > 0 THEN result ELSE extTok
            /\ UNCHANGED <<stored, loggedOut>>
       ELSE \* refreshToken's catch ran logout()
            /\ stored' = NoUser
            /\ loggedOut' = TRUE
            /\ extTok' = NoUser
            /\ UNCHANGED ctxUser
    /\ UNCHANGED <<defaultsAuth, route, hrefPending, reqs>>

----------------------------------------------------------------------------
(***************************************************************************)
(* fetchPriceData and priceDataCache.  Time is counted in minutes.         *)
(***************************************************************************)
CacheTTL == 5                  \* cacheTTL: 5 * 60 * 1000 ms
StartNow == CacheTTL + 1       \* Date.now() is far from the epoch at page load

Calls      == 1..NumCalls
Undefined  == "undefined"      \* argument left out
StartDates == {Undefined, "", "2025-03-10"}
EndDates   == {Undefined, "2025-03-11"}
Absent     == "absent"         \* key not set on the params object

\* `if (startDate) params.start_date = startDate`: undefined and '' are falsy
Truthy(s) == s # Undefined /\ s # ""

\* params object built from the arguments
MkParams(startDate, endDate) ==
    [start_date |-> IF Truthy(startDate) THEN startDate ELSE Absent,
     end_date   |-> IF Truthy(endDate) THEN endDate ELSE Absent]

EmptyParams == [start_date |-> Absent, end_date |-> Absent]

\* JSON.stringify(params): the key/value pairs that are set, in insertion order
Stringify(p) ==
    (IF p.start_date # Absent THEN << <<"start_date", p.start_date>> >> ELSE << >>) \o
    (IF p.end_date # Absent THEN << <<"end_date", p.end_date>> >> ELSE << >>)

NullData == [q |-> << >>, rows |-> << >>, isNull |-> TRUE]
MkData(q, rows) == [q |-> q, rows |-> rows, isNull |-> FALSE]

\* generateSamplePriceData(): an empty array
generateSamplePriceData == MkData(<< >>, << >>)

\* response bodies: a failure, a non-array, or an array of items that carry
\* a time field ("t") or none ("x")
Body(kind, items) == [kind |-> kind, items |-> items]
Bodies == {Body("fail", << >>), Body("notarray", << >>)} \cup
          {Body("array", i) : i \in {<< >>, <<"x">>, <<"t", "x">>}}

\* response.data && Array.isArray(response.data) && response.data.length > 0
UsableBody(b) == b.kind = "array" /\ Len(b.items) > 0

\* processApiResponse: items without a time field are dropped; when nothing
\* is left the sample data (an empty array) is returned
processApiResponse(q, b) ==
    LET kept == SelectSeq(b.items, LAMBDA i : i = "t")
    IN  IF Len(kept) = 0 THEN generateSamplePriceData ELSE MkData(q, kept)

\* faulty variant: entries are considered fresh up to and including the TTL
CacheIsFresh_Inclusive(t, cache) == (t - cache.timestamp) <= cache.cacheTTL

\* cacheIsFresh = (now - priceDataCache.timestamp) < priceDataCache.cacheTTL
CacheIsFresh(t, cache) == (t - cache.timestamp) < cache.cacheTTL

\* faulty variant: the parameters are not compared
ParamsMatch_Always(params, cache) == TRUE

\* paramsMatch = JSON.stringify(params) === JSON.stringify(priceDataCache.params)
ParamsMatch(params, cache) == Stringify(params) = Stringify(cache.params)

\* paramsMatch && cacheIsFresh && priceDataCache.data
CacheHit(params, t, cache) ==
    ParamsMatch(params, cache) /\ CacheIsFresh(t, cache) /\ ~cache.data.isNull

InitCall == [pc |-> "idle", params |-> EmptyParams, now |-> 0, http |-> 0,
             result |-> NullData]

CacheInit ==
    /\ priceDataCache = [data |-> NullData, timestamp |-> 0, params |-> EmptyParams,
                         cacheTTL |-> CacheTTL]
    /\ now = StartNow
    /\ calls = [c \in Calls |-> InitCall]

\* a minute passes
Tick ==
    /\ now < StartNow + MaxElapsed
    /\ now' = now + 1
    /\ UNCHANGED <<priceDataCache, calls>>

\* the promise settles with result after http requests were sent
Return(params, http, result) ==
    [pc |-> "done", params |-> params, now |-> 0, http |-> http, result |-> result]

\* fetchPriceData(startDate, endDate) up to its first await
FetchPriceData(c, startDate, endDate) ==
    /\ calls[c].pc \in {"idle", "done"}
    /\ LET params == MkParams(startDate, endDate)
       IN  IF CacheHit(params, now, priceDataCache)
           THEN calls' = [calls EXCEPT ![c] = Return(params, 0, priceDataCache.data)]
           ELSE \* api.get('/api/market-data/realtime', { params })
                calls' = [calls EXCEPT ![c] =
                    [InitCall EXCEPT !.pc = "primary", !.params = params,
                                     !.now = now, !.http = 1]]
    /\ UNCHANGED <<priceDataCache, now>>

\* the cache update both endpoints share
UpdateCache(c, data) ==
    [priceDataCache EXCEPT !.data = data, !.timestamp = calls[c].now,
                           !.params = calls[c].params]

\* the primary endpoint answers
PrimaryResponse(c, body) ==
    /\ calls[c].pc = "primary"
    /\ IF UsableBody(body)
       THEN LET data == processApiResponse(Stringify(calls[c].params), body)
            IN  /\ priceDataCache' = UpdateCache(c, data)
                /\ calls' = [calls EXCEPT ![c] = Return(calls[c].params, calls[c].http, data)]
       ELSE \* api.get(`/api/market-data/realtime?date=${todayStr}`)
            /\ calls' = [calls EXCEPT ![c].pc = "secondary", ![c].http = @ + 1]
            /\ UNCHANGED priceDataCache
    /\ UNCHANGED now

\* the alternative endpoint answers
SecondaryResponse(c, body) ==
    /\ calls[c].pc = "secondary"
    /\ IF UsableBody(body)
       THEN LET data == processApiResponse(<< <<"date", "today">> >>, body)
            IN  /\ priceDataCache' = UpdateCache(c, data)
                /\ calls' = [calls EXCEPT ![c] = Return(calls[c].params, calls[c].http, data)]
       ELSE /\ calls' = [calls EXCEPT ![c] =
                            Return(calls[c].params, calls[c].http, generateSamplePriceData)]
            /\ UNCHANGED priceDataCache
    /\ UNCHANGED now

----------------------------------------------------------------------------
(***************************************************************************)
(* useScheduledFetch with maxRetries / retryDelay, default options.        *)
(* Time is counted in units of 5 seconds.                                  *)
(***************************************************************************)
MaxRetries == 3       \* maxRetries = 3
RetryDelay == 1       \* retryDelay = 5000 ms
Interval   == 12      \* interval = 60000 ms
Enabled    == TRUE    \* enabled = true

TimerIds == 1..3

\* window.setTimeout returns an id no pending timer has
NewTimerId == CHOOSE i \in TimerIds :
                 /\ i # timerRef /\ \A t \in timers : t.id # i
                 /\ \A j \in TimerIds :
                       (j # timerRef /\ \A t \in timers : t.id # j) => i <= j

\* a new Error object is distinct from the ones React still holds
NewError == CHOOSE e \in 1..3 : e # sfError /\ e # effDeps.error

\* clearScheduledFetch: [timers', timerRef'] as a pair
ClearedTimers == IF timerRef # 0 THEN {t \in timers : t.id # timerRef} ELSE timers

\* faulty variant: retry while the counter has not passed maxRetries
MayRetry_Inclusive(retryOnError, count) == retryOnError /\ count <= MaxRetries

\* retryOnError && retryCountRef.current < maxRetries
MayRetry(retryOnError, count) == retryOnError /\ count < MaxRetries

SchedInit ==
    \* after the first render and its effects: the initial fetch is running
    /\ sfLoading = TRUE
    /\ sfError = 0
    /\ effDeps = [loading |-> TRUE, error |-> 0]
    /\ timerRef = 0
    /\ timers = {}
    /\ isFetching = TRUE
    /\ retryCount = 0
    /\ mounted = TRUE
    /\ owed = -1
    /\ autoRetries = 0
    /\ trigger = "mount"

RenderPending == mounted /\ effDeps # [loading |-> sfLoading, error |-> sfError]

\* 5 seconds pass; React flushes its effects and due timers run first
SFTick ==
    /\ ~RenderPending
    /\ \A t \in timers : t.left > 0
    /\ timers # {} \/ owed > 0
    /\ timers' = {[t EXCEPT !.left = @ - 1] : t \in timers}
    /\ owed' = IF owed > 0 THEN owed - 1 ELSE owed
    /\ UNCHANGED <<sfLoading, sfError, effDeps, timerRef, isFetching, retryCount,
                   mounted, autoRetries, trigger>>

\* fetchFn() resolves: the try block and finally of fetchData
SFFetchSuccess ==
    /\ isFetching
    /\ isFetching' = FALSE
    /\ IF mounted
       THEN /\ sfLoading' = FALSE
            /\ retryCount' = 0
            /\ owed' = -1
            /\ autoRetries' = 0
       ELSE UNCHANGED <<sfLoading, retryCount, owed, autoRetries>>
    /\ UNCHANGED <<sfError, effDeps, timerRef, timers, mounted, trigger>>

\* fetchFn() rejects: the catch block and finally of fetchData(retryOnError)
SFFetchFail(retryOnError) ==
    /\ isFetching
    /\ isFetching' = FALSE
    /\ IF mounted
       THEN /\ sfError' = NewError
            /\ sfLoading' = FALSE
            /\ IF MayRetry(retryOnError, retryCount)
               THEN /\ retryCount' = retryCount + 1
                    /\ timerRef' = NewTimerId
                    /\ timers' = timers \cup
                          {[id |-> NewTimerId, kind |-> "retry", left |-> RetryDelay]}
                    /\ owed' = IF retryCount < MaxRetries THEN RetryDelay ELSE -1
               ELSE /\ retryCount' = IF retryCount >= MaxRetries THEN 0 ELSE retryCount
                    /\ owed' = IF retryCount < MaxRetries THEN RetryDelay ELSE -1
                    /\ UNCHANGED <<timerRef, timers>>
       ELSE UNCHANGED <<sfError, sfLoading, retryCount, timerRef, timers, owed>>
    /\ UNCHANGED <<effDeps, mounted, autoRetries, trigger>>

\* React commits the state change and runs the scheduling effect: cleanup of
\* the previous run (clearScheduledFetch), then the body (scheduleNextFetch
\* when not loading, enabled and without error)
SFRender ==
    /\ RenderPending
    /\ effDeps' = [loading |-> sfLoading, error |-> sfError]
    /\ IF ~sfLoading /\ Enabled /\ sfError = 0
       THEN \* timerRef.current is null after the cleanup
            LET id == IF timerRef # 0 THEN timerRef ELSE NewTimerId
            IN  /\ timerRef' = id
                /\ timers' = ClearedTimers \cup
                      {[id |-> id, kind |-> "interval", left |-> Interval]}
       ELSE /\ timerRef' = 0
            /\ timers' = ClearedTimers
    /\ UNCHANGED <<sfLoading, sfError, isFetching, retryCount, mounted, owed,
                   autoRetries, trigger>>

\* a timer callback runs
SFTimerFire ==
    \E t \in timers :
        /\ t.left = 0
        /\ timers' = timers \ {t}
        /\ IF ~mounted
           THEN UNCHANGED <<timerRef, isFetching, sfLoading, sfError, owed, autoRetries,
                            trigger>>
           ELSE /\ timerRef' = IF t.kind = "interval" THEN 0 ELSE timerRef
                /\ IF isFetching
                   THEN UNCHANGED <<isFetching, sfLoading, sfError, owed, autoRetries,
                                    trigger>>
                   ELSE \* fetchData(): isFetching, setLoading(true), setError(null)
                        /\ isFetching' = TRUE
                        /\ sfLoading' = TRUE
                        /\ sfError' = 0
                        /\ owed' = IF t.kind = "retry" THEN -1 ELSE owed
                        /\ autoRetries' = IF t.kind = "retry" THEN autoRetries + 1
                                          ELSE autoRetries
                        /\ trigger' = t.kind
        /\ UNCHANGED <<effDeps, retryCount, mounted>>

\* refetch(): clearScheduledFetch(); fetchData()
SFRefetch ==
    /\ mounted
    /\ timerRef' = 0
    /\ timers' = ClearedTimers
    /\ owed' = -1
    /\ IF isFetching
       THEN UNCHANGED <<isFetching, sfLoading, sfError, trigger>>
       ELSE /\ isFetching' = TRUE
            /\ sfLoading' = TRUE
            /\ sfError' = 0
            /\ trigger' = "refetch"
    /\ UNCHANGED <<effDeps, retryCount, mounted, autoRetries>>

\* the component unmounts: cleanups of both effects
SFUnmount ==
    /\ mounted
    /\ mounted' = FALSE
    /\ timerRef' = 0
    /\ timers' = ClearedTimers
    /\ owed' = -1
    /\ UNCHANGED <<sfLoading, sfError, effDeps, isFetching, retryCount, autoRetries,
                   trigger>>

----------------------------------------------------------------------------
(***************************************************************************)
(* Order form: handleBuyOrder, handleSellOrder, executeTrade.              *)
(* Quantities are tenths of a MWh, instants are units of 30 seconds.       *)
(***************************************************************************)
CapacityTotal == 25      \* batteryState.capacity.total = 2.5 MWh
MinBuffer     == 1       \* minExecutionTime = now + 30 seconds
DefaultResolution == 60  \* tradeRequest.resolution || 60

NaN         == -1000     \* parseFloat / parseInt of text that is no number
InvalidDate == -1        \* new Date('...') of text that is no date

Quantities == {NaN, 0, 12, 13}
Levels     == {0, 50}
Instants   == {InvalidDate} \cup 0..(MaxFormClock + 1)
Durations  == {"30", "60", "45", ""}

\* parseInt(selectedTimeWindow.duration)
ParseInt(d) ==
    CASE d = "15" -> 15 [] d = "30" -> 30 [] d = "60" -> 60 [] d = "45" -> 45
      [] OTHER -> NaN

\* !quantity || quantity <= 0
QuantityInvalid(q) == q = NaN \/ q = 0 \/ q <= 0

\* sellQuantity > batteryState.level * batteryState.capacity.total / 100
NotEnoughEnergy(q, level) == q * 100 > level * CapacityTotal

\* faulty variant: the execution time only has to lie in the future
TimeTooEarly_NoBuffer(exec, t) == exec # InvalidDate /\ exec < t

\* executionDateTime < minExecutionTime; false for an Invalid Date
TimeTooEarly(exec, t) == exec # InvalidDate /\ exec < t + MinBuffer

\* ![15, 30, 60].includes(resolution)
ResolutionInvalid(res) == res \notin {15, 30, 60}

\* Date.prototype.toISOString: the instant as UTC text
ToISOString(d) == [utc |-> d]
NoTimestamp == [utc |-> InvalidDate]   \* field left out of the request

ToUpperCase(t) == IF t = "buy" THEN "BUY" ELSE "SELL"

\* the object the form passes to executeTrade
TradeRequest(type, q, exec, res) ==
    [type |-> type, quantity |-> q, executionTime |-> ToISOString(exec),
     resolution |-> res, market |-> "Germany", timestamp |-> NoTimestamp]

\* executeTrade: mappedRequest, the body of the POST
MappedRequest(req, t) ==
    [Trade_Type |-> ToUpperCase(req.type),
     Quantity   |-> req.quantity,
     Timestamp  |-> IF req.timestamp # NoTimestamp THEN req.timestamp
                    ELSE ToISOString(t),
     Market     |-> IF req.market # "" THEN req.market ELSE "nordpool",
     Resolution |-> IF req.resolution # 0 /\ req.resolution # NaN THEN req.resolution
                    ELSE DefaultResolution,
     Status     |-> "pending"]

NoPost == [req  |-> TradeRequest("buy", 0, InvalidDate, 0),
           body |-> MappedRequest(TradeRequest("buy", 0, InvalidDate, 0), InvalidDate),
           sent |-> FALSE]

OrderInit ==
    /\ buyQuantity = 12 /\ sellQuantity = 12
    /\ selectedTimeWindow = [when |-> MaxFormClock + 1, duration |-> "30"]
    /\ batteryLevel = 50
    /\ formNow = 0
    /\ isSubmitting = FALSE
    /\ pendingOrder = FALSE
    /\ lastPost = NoPost
    /\ lastAlert = ""

\* the body shared by handleBuyOrder and handleSellOrder up to the await
PlaceOrder(type, q) ==
    /\ ~isSubmitting                      \* the buttons are disabled otherwise
    /\ LET exec == selectedTimeWindow.when
           res  == ParseInt(selectedTimeWindow.duration)
           fail == IF QuantityInvalid(q) THEN "Please enter a valid quantity"
                   ELSE IF type = "sell" /\ NotEnoughEnergy(q, batteryLevel)
                        THEN "Not enough energy in battery"
                   ELSE IF TimeTooEarly(exec, formNow)
                        THEN "Execution time must be at least 30 seconds in the future"
                   ELSE IF ResolutionInvalid(res)
                        THEN "Please select a valid duration (15, 30, or 60 minutes)"
                   ELSE IF exec = InvalidDate
                        THEN "Error placing order: Invalid time value"
                   ELSE ""
       IN  IF fail # ""
           THEN \* alert, return or catch; finally setIsSubmitting(false)
                /\ lastAlert' = fail
                /\ isSubmitting' = FALSE
                /\ UNCHANGED <<pendingOrder, lastPost>>
           ELSE /\ isSubmitting' = TRUE
                /\ pendingOrder' = TRUE
                /\ lastPost' = [req  |-> TradeRequest(type, q, exec, res),
                                body |-> MappedRequest(TradeRequest(type, q, exec, res),
                                                       formNow),
                                sent |-> TRUE]
                /\ UNCHANGED lastAlert
    /\ UNCHANGED <<buyQuantity, sellQuantity, selectedTimeWindow, batteryLevel, formNow>>

handleBuyOrder  == PlaceOrder("buy", buyQuantity)
handleSellOrder == PlaceOrder("sell", sellQuantity)

\* the POST settles: alert with the outcome; finally setIsSubmitting(false)
TradeResponse(ok) ==
    /\ pendingOrder
    /\ pendingOrder' = FALSE
    /\ isSubmitting' = FALSE
    /\ lastAlert' = IF ok THEN "order placed successfully" ELSE "Failed to place order"
    /\ UNCHANGED <<buyQuantity, sellQuantity, selectedTimeWindow, batteryLevel, formNow,
                   lastPost>>

\* the user edits the form, the battery changes, time passes
SetBuyQuantity(q) ==
    /\ buyQuantity' = q
    /\ UNCHANGED <<sellQuantity, selectedTimeWindow, batteryLevel, formNow,
                   isSubmitting, pendingOrder, lastPost, lastAlert>>

SetSellQuantity(q) ==
    /\ sellQuantity' = q
    /\ UNCHANGED <<buyQuantity, selectedTimeWindow, batteryLevel, formNow,
                   isSubmitting, pendingOrder, lastPost, lastAlert>>

\* onChange of the date and time inputs
SetExecutionTime(w) ==
    /\ selectedTimeWindow' = [selectedTimeWindow EXCEPT !.when = w]
    /\ UNCHANGED <<buyQuantity, sellQuantity, batteryLevel, formNow,
                   isSubmitting, pendingOrder, lastPost, lastAlert>>

\* onChange of the duration select
SetDuration(d) ==
    /\ selectedTimeWindow' = [selectedTimeWindow EXCEPT !.duration = d]
    /\ UNCHANGED <<buyQuantity, sellQuantity, batteryLevel, formNow,
                   isSubmitting, pendingOrder, lastPost, lastAlert>>

SetBatteryLevel(l) ==
    /\ batteryLevel' = l
    /\ UNCHANGED <<buyQuantity, sellQuantity, selectedTimeWindow, formNow,
                   isSubmitting, pendingOrder, lastPost, lastAlert>>

FormTick ==
    /\ formNow < MaxFormClock
    /\ formNow' = formNow + 1
    /\ UNCHANGED <<buyQuantity, sellQuantity, selectedTimeWindow, batteryLevel,
                   isSubmitting, pendingOrder, lastPost, lastAlert>>

----------------------------------------------------------------------------
(***************************************************************************)
(* SessionTimer countdown effect, mounted by App with warningThreshold 1.  *)
(* Time is counted in seconds.                                             *)
(***************************************************************************)
WarningThreshold == 1                       \* <SessionTimer warningThreshold={1} />
WarningThresholdSec == WarningThreshold * 60

\* lifetimes of the tokens the server issues; 0 stands for a token without exp
Lifetimes == {0, 2, WarningThresholdSec + 2}

\* faulty variant: the warning starts one tick late
TickBranch_Late(remaining) ==
    IF remaining > 0 /\ remaining < WarningThresholdSec THEN "warn"
    ELSE IF remaining <= 0 THEN "expired" ELSE "clear"

\* the three branches of the interval callback
TickBranch(remaining) ==
    IF remaining > 0 /\ remaining <= WarningThresholdSec THEN "warn"
    ELSE IF remaining <= 0 THEN "expired" ELSE "clear"

\* render guard: if (!showWarning || !timeRemaining) return null
WarningRendered == showWarning /\ timeRemaining # -1 /\ timeRemaining # 0

TimerInit ==
    /\ clock = 0
    /\ hasUser = FALSE
    /\ tokenExp = 0
    /\ intervalOn = FALSE
    /\ timeRemaining = -1
    /\ showWarning = FALSE
    /\ logoutCalls = 0
    /\ tickSeq = 0

\* countdown effect for a token: an interval only when the token has an exp
EffectStartsInterval(exp) == exp # 0

\* login: currentUser is set, App mounts SessionTimer, the effect runs
TimerLogin(life) ==
    /\ ~hasUser
    /\ hasUser' = TRUE
    /\ tokenExp' = IF life = 0 THEN 0 ELSE clock + life
    /\ intervalOn' = EffectStartsInterval(IF life = 0 THEN 0 ELSE clock + life)
    /\ timeRemaining' = -1
    /\ showWarning' = FALSE
    /\ logoutCalls' = 0
    /\ UNCHANGED <<clock, tickSeq>>

\* extendSession succeeded: setCurrentUser(newToken), setShowWarning(false);
\* the effect is cleaned up and runs again for the new token
TimerExtend(life) ==
    /\ hasUser
    /\ tokenExp' = IF life = 0 THEN 0 ELSE clock + life
    /\ intervalOn' = EffectStartsInterval(IF life = 0 THEN 0 ELSE clock + life)
    /\ showWarning' = FALSE
    /\ logoutCalls' = 0
    /\ UNCHANGED <<clock, hasUser, timeRemaining, tickSeq>>

\* a second passes
TimerAdvance ==
    /\ clock < MaxSeconds
    /\ clock' = clock + 1
    /\ UNCHANGED <<hasUser, tokenExp, intervalOn, timeRemaining, showWarning,
                   logoutCalls, tickSeq>>

\* the interval callback runs
TimerTick ==
    /\ intervalOn
    /\ tickSeq' = 1 - tickSeq
    /\ LET remaining == tokenExp - clock
           branch    == TickBranch(remaining)
       IN  IF branch = "expired"
           THEN \* handleLogout(true); clearInterval(interval); App unmounts the timer
                /\ logoutCalls' = logoutCalls + 1
                /\ hasUser' = FALSE
                /\ intervalOn' = FALSE
                /\ timeRemaining' = -1
                /\ showWarning' = FALSE
                /\ UNCHANGED tokenExp
           ELSE /\ timeRemaining' = remaining
                /\ showWarning' = (branch = "warn")
                /\ UNCHANGED <<hasUser, tokenExp, intervalOn, logoutCalls>>
    /\ UNCHANGED clock

\* handleLogout from the header button or the AuthProvider checks
TimerLogout ==
    /\ hasUser
    /\ hasUser' = FALSE
    /\ intervalOn' = FALSE
    /\ timeRemaining' = -1
    /\ showWarning' = FALSE
    /\ UNCHANGED <<clock, tokenExp, logoutCalls, tickSeq>>

----------------------------------------------------------------------------
(***************************************************************************)
(* AuthProvider (context/AuthContext.tsx), ProtectedRoute and the routes   *)
(* of App.  Time is counted in units of 30 seconds.                        *)
(***************************************************************************)
CheckInterval  == 2       \* setInterval(..., 60000)
SessionTimeout == 10      \* sessionTimeoutMs = 5 * 60 * 1000
ExtendWindow   == 2       \* <SessionTimer warningThreshold={1} />: one minute
ApStart        == 2       \* Date.now() when the model starts
FarExp         == 100     \* `exp` of a token that outlives the model's run
ShortLife      == 3       \* lifetime of a token that expires within the run

NullUser == [decodable |-> FALSE, exp |-> -1, role |-> "none"]

MkUser(decodable, exp, role) == [decodable |-> decodable, exp |-> exp, role |-> role]

\* what localStorage may hold when the page is loaded: nothing, a user whose
\* token is not a JWT, a token without exp, an expired and a valid token
StoredAtStart ==
    {NullUser, MkUser(FALSE, 0, "user"), MkUser(TRUE, 0, "user")}
    \cup {MkUser(TRUE, e, "user") : e \in {ApStart - 1, ApStart, FarExp}}

Roles == {"user", "admin"}
RequiredRoles == {"", "admin"}       \* "" stands for no requiredRole prop
StartPaths == {"/dashboard", "/login"}
LoginTimeoutPath == "/login?timeout=true"
AuthPages == {"/login", LoginTimeoutPath, "/register"}

\* parseJwt: the payload, or null when the token cannot be decoded
parseJwt(user) ==
    IF user.decodable THEN [isNull |-> FALSE, exp |-> user.exp]
                      ELSE [isNull |-> TRUE, exp |-> 0]

\* faulty variant: the expiry time is not compared with the current time
TokenValid_IgnoresExp(tokenData, currentTime) ==
    ~tokenData.isNull /\ tokenData.exp # 0

\* tokenData && tokenData.exp && tokenData.exp > currentTime
TokenValid(tokenData, currentTime) ==
    ~tokenData.isNull /\ tokenData.exp # 0 /\ tokenData.exp > currentTime

\* tokenData && tokenData.exp && tokenData.exp <= nowInSeconds
TokenExpired(tokenData, nowInSeconds) ==
    ~tokenData.isNull /\ tokenData.exp # 0 /\ tokenData.exp <= nowInSeconds

\* inactiveTime > sessionTimeoutMs
InactiveTooLong(currentTime, last) == currentTime - last > SessionTimeout

\* faulty variant: the authentication check is missing
ProtectedRoute_NoAuthCheck(isAuth, user, requiredRole) ==
    IF requiredRole # "" /\ user.role # requiredRole THEN "/"
    ELSE "children"

\* ProtectedRoute: what it renders ("children", or the target of <Navigate>);
\* currentUser?.user_role of a null user is undefined, here the role "none"
ProtectedRoute(isAuth, user, requiredRole) ==
    IF ~isAuth THEN "/login"
    ELSE IF requiredRole # "" /\ user.role # requiredRole THEN "/"
    ELSE "children"

\* where the routes of App settle for a location and the auth state
RouteFor(path, isAuth, user) ==
    IF path \in AuthPages
    THEN IF isAuth THEN "/dashboard" ELSE path
    ELSE IF ProtectedRoute(isAuth, user, "") = "children" THEN "/dashboard"
         ELSE "/login"

\* the activity effect: an interval exists while isAuthenticated
EffectInterval(isAuth) == IF isAuth THEN CheckInterval ELSE -1

NoView == [out |-> "", required |-> ""]
NoLoad == [fresh |-> FALSE, from |-> NullUser, at |-> 0]

SyncPending == apAuth # (apUser # NullUser)

\* the SessionTimer logs out within a second of the token's expiry
ExpiryDue == apAuth /\ TokenExpired(parseJwt(apUser), apNow)

ProviderInit ==
    /\ apNow = ApStart
    /\ apStored = NullUser
    /\ apUser = NullUser
    /\ apAuth = FALSE
    /\ apLastActivity = ApStart
    /\ apDue = -1
    /\ apPath = "/login"
    /\ apLoaded = FALSE
    /\ apExt = ""
    /\ apIdleSince = ApStart
    /\ apCause = "none"
    /\ apLoad = NoLoad
    /\ apView = NoView

\* the page is opened at a route, with whatever an earlier visit or another
\* tab left in localStorage
ApOpen(user, path) ==
    /\ ~apLoaded
    /\ apStored' = user
    /\ apPath' = path
    /\ UNCHANGED <<apNow, apUser, apAuth, apLastActivity, apDue, apLoaded, apExt,
                   apIdleSince, apCause, apLoad, apView>>

\* handleLogout(isTimeout), with the cleanup of the activity effect
ApHandleLogout(isTimeout, cause) ==
    /\ apStored' = NullUser
    /\ apUser' = NullUser
    /\ apAuth' = FALSE
    /\ apPath' = IF isTimeout THEN LoginTimeoutPath ELSE "/login"
    /\ apDue' = EffectInterval(FALSE)
    /\ apCause' = cause

\* the effects of the first commit: the load effect, then the
\* isAuthenticated effect, which still sees currentUser = null
ApLoad ==
    /\ ~apLoaded
    /\ apLoaded' = TRUE
    /\ apLoad' = [fresh |-> TRUE, from |-> apStored, at |-> apNow]
    /\ IF apStored = NullUser
       THEN /\ apPath' = RouteFor(apPath, FALSE, NullUser)
            /\ UNCHANGED <<apStored, apUser, apAuth, apLastActivity, apDue, apCause>>
       ELSE IF TokenValid(parseJwt(apStored), apNow)
       THEN /\ apUser' = apStored
            /\ apAuth' = FALSE
            /\ apLastActivity' = apNow
            /\ apPath' = RouteFor(apPath, FALSE, apStored)
            /\ UNCHANGED <<apStored, apDue, apCause>>
       ELSE /\ ApHandleLogout(TRUE, "load")
            /\ UNCHANGED apLastActivity
    /\ UNCHANGED <<apNow, apExt, apIdleSince>>
    /\ apView' = NoView

\* useEffect(() => setIsAuthenticated(!!currentUser), [currentUser]) and the
\* render after it: the activity effect and App's redirect
ApSyncEffect ==
    /\ SyncPending
    /\ apAuth' = (apUser # NullUser)
    /\ apDue' = EffectInterval(apAuth')
    /\ apPath' = RouteFor(apPath, apAuth', apUser)
    /\ apIdleSince' = IF apAuth' THEN apNow ELSE apIdleSince
    /\ UNCHANGED <<apNow, apStored, apUser, apLastActivity, apLoaded, apExt, apCause,
                   apLoad>>
    /\ apView' = NoView

\* the record of the load is kept until the next event
Stale(load) == NoLoad

\* Login.handleSubmit after a successful login(): localStorage, setCurrentUser,
\* navigate('/'); the server issues a decodable token that expires later
ApLogin(exp, role) ==
    /\ apLoaded /\ ~SyncPending /\ ~apAuth
    /\ exp > apNow
    /\ apStored' = MkUser(TRUE, exp, role)
    /\ apUser' = apStored'
    /\ apPath' = "/"
    /\ apDue' = EffectInterval(apAuth)
    /\ apCause' = "none"
    /\ apLoad' = Stale(apLoad)
    /\ UNCHANGED <<apNow, apAuth, apLastActivity, apLoaded, apExt, apIdleSince>>
    /\ apView' = NoView

\* updateActivity: a mousedown, keydown, touchstart or scroll event while the
\* listeners are attached; the effect runs again and starts a new interval
ApActivity ==
    /\ apAuth /\ ~SyncPending
    /\ apLastActivity' = apNow
    /\ apIdleSince' = apNow
    /\ apDue' = EffectInterval(apAuth)
    /\ apLoad' = Stale(apLoad)
    /\ UNCHANGED <<apNow, apStored, apUser, apAuth, apPath, apLoaded, apExt, apCause>>
    /\ apView' = NoView

\* a click on "Extend session" (shown during the last minute of the token):
\* the mousedown is an activity, extendSession() calls refreshToken()
ApExtendClick ==
    /\ apAuth /\ ~SyncPending /\ apExt = ""
    /\ TokenValid(parseJwt(apUser), apNow)
    /\ apUser.exp - apNow <= ExtendWindow
    /\ apLastActivity' = apNow
    /\ apIdleSince' = apNow
    /\ apDue' = EffectInterval(apAuth)
    /\ apExt' = IF apStored = NullUser THEN "" ELSE apUser.role
    /\ apLoad' = Stale(apLoad)
    /\ UNCHANGED <<apNow, apStored, apUser, apAuth, apPath, apLoaded, apCause>>
    /\ apView' = NoView

\* refreshToken() settles: setCurrentUser(newToken), or logout() in its catch
ApExtendResponse(ok, exp) ==
    /\ apExt # "" /\ ~SyncPending
    /\ exp > apNow
    /\ apExt' = ""
    /\ IF ok
       THEN /\ apUser' = MkUser(TRUE, exp, apExt)
            /\ apDue' = EffectInterval(apAuth)
            /\ UNCHANGED apStored
       ELSE /\ apStored' = NullUser
            /\ UNCHANGED <<apUser, apDue>>
    /\ apLoad' = Stale(apLoad)
    /\ UNCHANGED <<apNow, apAuth, apLastActivity, apPath, apLoaded, apIdleSince, apCause>>
    /\ apView' = NoView

\* the Logout button of the header: handleLogout()
ApLogoutClick ==
    /\ apAuth /\ ~SyncPending
    /\ ApHandleLogout(FALSE, "manual")
    /\ apLoad' = Stale(apLoad)
    /\ UNCHANGED <<apNow, apLastActivity, apLoaded, apExt, apIdleSince>>
    /\ apView' = NoView

\* 30 seconds pass; no callback that is due is skipped
ApAdvance ==
    /\ apLoaded /\ ~SyncPending /\ ~ExpiryDue
    /\ apDue # 0
    /\ apNow < MaxApClock
    /\ apNow' = apNow + 1
    /\ apDue' = IF apDue > 0 THEN apDue - 1 ELSE apDue
    /\ apLoad' = Stale(apLoad)
    /\ UNCHANGED <<apStored, apUser, apAuth, apLastActivity, apPath, apLoaded, apExt,
                   apIdleSince, apCause>>
    /\ apView' = NoView

\* the callback of the once-a-minute interval
ApIntervalFire ==
    /\ apDue = 0 /\ ~SyncPending
    /\ IF apUser = NullUser
       THEN /\ apDue' = CheckInterval
            /\ UNCHANGED <<apStored, apUser, apAuth, apPath, apCause>>
       ELSE IF InactiveTooLong(apNow, apLastActivity)
       THEN ApHandleLogout(TRUE, "inactive")
       ELSE IF TokenExpired(parseJwt(apUser), apNow)
       THEN ApHandleLogout(TRUE, "expired")
       ELSE /\ apDue' = CheckInterval
            /\ UNCHANGED <<apStored, apUser, apAuth, apPath, apCause>>
    /\ apLoad' = Stale(apLoad)
    /\ UNCHANGED <<apNow, apLastActivity, apLoaded, apExt, apIdleSince>>
    /\ apView' = NoView

\* the SessionTimer's callback once the token has expired: handleLogout(true)
ApTimerExpiry ==
    /\ ExpiryDue /\ ~SyncPending
    /\ ApHandleLogout(TRUE, "expired")
    /\ apLoad' = Stale(apLoad)
    /\ UNCHANGED <<apNow, apLastActivity, apLoaded, apExt, apIdleSince>>
    /\ apView' = NoView

\* the page is loaded again: React state starts over, localStorage stays
ApReload ==
    /\ apLoaded /\ ~SyncPending
    /\ apUser' = NullUser
    /\ apAuth' = FALSE
    /\ apLastActivity' = apNow
    /\ apDue' = -1
    /\ apLoaded' = FALSE
    /\ apExt' = ""
    /\ apIdleSince' = apNow
    /\ apCause' = "none"
    /\ apLoad' = NoLoad
    /\ apView' = NoView
    /\ UNCHANGED <<apNow, apStored, apPath>>

\* a render of <ProtectedRoute requiredRole={...}> in the current state
ApRenderProtected(requiredRole) ==
    /\ apView' = [out |-> ProtectedRoute(apAuth, apUser, requiredRole),
                  required |-> requiredRole]
    /\ UNCHANGED <<apNow, apStored, apUser, apAuth, apLastActivity, apDue, apPath,
                   apLoaded, apExt, apIdleSince, apCause, apLoad>>

----------------------------------------------------------------------------
(***************************************************************************)
(* The read operations of services/api.ts and the performance-metrics      *)
(* effect of PriceChart.  Numbers with a decimal are in tenths.            *)
(***************************************************************************)
NoValue      == -999      \* a property that is undefined
DefaultTotal == 25        \* ... || 2.5
DefaultUsable == 20       \* ... || 2.0

EmptyObj == [k \in {} |-> 0]

\* obj.key
Get(o, k) == IF k \in DOMAIN o THEN o[k] ELSE NoValue

\* x || dflt, for a number or undefined
OrDefault(x, dflt) == IF x = NoValue \/ x = 0 THEN dflt ELSE x

\* a ?? b ?? c written as chains of `!== undefined`
FirstDefined(xs) ==
    LET defd == SelectSeq(xs, LAMBDA x : x # NoValue)
    IN  IF Len(defd) = 0 THEN NoValue ELSE Head(defd)

\* what the try block came to: a value, or an exception
Returned(v) == [thrown |-> FALSE, value |-> v]
Threw(v)    == [thrown |-> TRUE, value |-> v]

\* faulty variant: the exception leaves the function
Catch_Rethrow(attempt, fallback) ==
    IF attempt.thrown THEN [status |-> "rejected", value |-> fallback]
    ELSE [status |-> "resolved", value |-> attempt.value]

\* try { ... } catch (error) { log; return fallback }
Catch(attempt, fallback) ==
    IF attempt.thrown THEN [status |-> "resolved", value |-> fallback]
    ELSE [status |-> "resolved", value |-> attempt.value]

\* ---- fetchPriceData, by the outcome of its cache lookup and requests ----
PriceAttempt(params, hit, cached, primary, secondary) ==
    IF hit THEN Returned(cached)
    ELSE IF UsableBody(primary) THEN Returned(processApiResponse(Stringify(params), primary))
    ELSE IF UsableBody(secondary)
         THEN Returned(processApiResponse(<< <<"date", "today">> >>, secondary))
    ELSE Returned(generateSamplePriceData)

fetchPriceDataResult(params, hit, cached, primary, secondary) ==
    Catch(PriceAttempt(params, hit, cached, primary, secondary), generateSamplePriceData)

\* ---- fetchBatteryStatus ----
BatteryResp(kind, nums, state) == [kind |-> kind, nums |-> nums, state |-> state]
BatteryResps ==
    {BatteryResp("fail", EmptyObj, ""), BatteryResp("null", EmptyObj, ""),
     BatteryResp("object", EmptyObj, ""),
     BatteryResp("object", [k \in {"Current_Level", "Total_Capacity", "Usable_Capacity"} |->
                               IF k = "Current_Level" THEN 10
                               ELSE IF k = "Total_Capacity" THEN 25 ELSE 20], "charging"),
     BatteryResp("object", [k \in {"level", "capacity.total", "capacity.usable"} |->
                               IF k = "level" THEN 500
                               ELSE IF k = "capacity.total" THEN 30 ELSE 24], ""),
     BatteryResp("object", [k \in {"current_level", "total_capacity", "charging_rate"} |->
                               IF k = "current_level" THEN 10
                               ELSE IF k = "total_capacity" THEN 0 ELSE 5], "")}

BatteryFallback ==
    [level |-> 0, total |-> DefaultTotal, usable |-> DefaultUsable,
     charging_state |-> "idle", charging_rate |-> 0]

BatteryAttempt(resp) ==
    IF resp.kind = "fail" \/ resp.kind = "null" THEN Threw(BatteryFallback)
    ELSE
    LET d == resp.nums
        level0 == FirstDefined(<<Get(d, "level"), Get(d, "Current_Level"),
                                 Get(d, "current_level")>>)
        totalCapacity ==
            IF Get(d, "Total_Capacity") # NoValue THEN Get(d, "Total_Capacity")
            ELSE IF Get(d, "total_capacity") # NoValue THEN Get(d, "total_capacity")
            ELSE OrDefault(Get(d, "capacity.total"), DefaultTotal)
        level == IF level0 # NoValue /\ totalCapacity > 0 /\ level0 >= 0
                    /\ level0 <= totalCapacity
                 THEN (level0 * 1000) \div totalCapacity
                 ELSE level0
    IN  Returned(
          [level |-> IF level # NoValue THEN level ELSE 0,
           total |-> totalCapacity,
           usable |-> IF Get(d, "Usable_Capacity") # NoValue THEN Get(d, "Usable_Capacity")
                      ELSE IF Get(d, "usable_capacity") # NoValue
                           THEN Get(d, "usable_capacity")
                      ELSE OrDefault(Get(d, "capacity.usable"), DefaultUsable),
           charging_state |-> IF resp.state # "" THEN resp.state ELSE "idle",
           charging_rate |-> OrDefault(Get(d, "charging_rate"),
                                       OrDefault(Get(d, "Charging_Rate"), 0))])

fetchBatteryStatus(resp) == Catch(BatteryAttempt(resp), BatteryFallback)

\* ---- fetchTradeHistory ----
TradeRow(type, quantity) == [Trade_Type |-> type, Quantity |-> quantity]
TradeResp(kind, items) == [kind |-> kind, items |-> items]
TradeResps ==
    {TradeResp("fail", << >>), TradeResp("null", << >>), TradeResp("object", << >>)}
    \cup {TradeResp("array", i) :
            i \in {<< >>, <<TradeRow("SELL", 5)>>, <<TradeRow("", NoValue)>>,
                   <<TradeRow("BUY", 5), TradeRow("sell", 0)>>}}

ToLowerCase(s) == IF s = "SELL" THEN "sell" ELSE IF s = "BUY" THEN "buy" ELSE s

MapTrade(trade, index) ==
    [id |-> index,
     type |-> IF ToLowerCase(trade.Trade_Type) = "sell" THEN "sell" ELSE "buy",
     quantity |-> OrDefault(trade.Quantity, 0)]

\* api.get rejects, or response.data.map is not a function
TradesAttempt(resp) ==
    IF resp.kind # "array" THEN Threw(<< >>)
    ELSE Returned([i \in 1..Len(resp.items) |-> MapTrade(resp.items[i], i - 1)])

fetchTradeHistory(resp) == Catch(TradesAttempt(resp), << >>)

\* ---- fetchPerformanceMetrics ----
MetricsKeys == {"totalRevenue", "totalProfit", "totalCosts", "totalVolume",
                "profitMargin", "tradeCount", "accuracy", "currentBalance"}
TotalKeys == {"totalRevenue", "totalProfit", "totalCosts", "totalVolume"}

\* the key of response.data each field is read from
SourceKey(k) == IF k = "tradeCount" THEN "trade_count" ELSE k

\* the key of the fetched metrics each field of the state is read from
StateSourceKey(k) ==
    IF k = "totalRevenue" THEN "total_revenue"
    ELSE IF k = "totalProfit" THEN "total_profit"
    ELSE IF k = "totalCosts" THEN "total_costs"
    ELSE "total_volume"

MetricsResp(kind, data) == [kind |-> kind, data |-> data]
TotalValues == {0, 4}
ServerMetrics(r, p, c, v) ==
    [k \in TotalKeys \cup {"trade_count"} |->
        IF k = "totalRevenue" THEN r ELSE IF k = "totalProfit" THEN p
        ELSE IF k = "totalCosts" THEN c ELSE IF k = "totalVolume" THEN v ELSE 3]
MetricsResps ==
    {MetricsResp("fail", EmptyObj), MetricsResp("null", EmptyObj),
     MetricsResp("object", EmptyObj)}
    \cup {MetricsResp("object", ServerMetrics(r, p, c, v)) :
            r \in TotalValues, p \in TotalValues, c \in TotalValues, v \in TotalValues}

MetricsFallback == [k \in MetricsKeys |-> 0]

\* api.get rejects, or `!response.data` throws 'Empty response from API'
MetricsAttempt(resp) ==
    IF resp.kind # "object" THEN Threw(MetricsFallback)
    ELSE Returned([k \in MetricsKeys |-> OrDefault(Get(resp.data, SourceKey(k)), 0)])

fetchPerformanceMetrics(resp) == Catch(MetricsAttempt(resp), MetricsFallback)

\* ---- the latest read and the state of the performance tab ----
NoRead ==
    [fn |-> "", unusable |-> FALSE, status |-> "", price |-> NullData,
     battery |-> BatteryFallback, trades |-> << >>, metrics |-> MetricsFallback]

NoTotals == [set |-> FALSE, totals |-> [k \in TotalKeys |-> 0]]

ReadsInit ==
    /\ rd = NoRead
    /\ performanceMetrics = [k \in TotalKeys |-> 0]
    /\ serverTotals = NoTotals

ReadPrice(startDate, endDate, hit, primary, secondary) ==
    LET params == MkParams(startDate, endDate)
        cached == MkData(Stringify(params), <<"t">>)
        out == fetchPriceDataResult(params, hit, cached, primary, secondary)
    IN  /\ rd' = [NoRead EXCEPT !.fn = "fetchPriceData",
                     !.unusable = ~hit /\ ~UsableBody(primary) /\ ~UsableBody(secondary),
                     !.status = out.status, !.price = out.value]
        /\ UNCHANGED <<performanceMetrics, serverTotals>>

ReadBattery(resp) ==
    LET out == fetchBatteryStatus(resp)
    IN  /\ rd' = [NoRead EXCEPT !.fn = "fetchBatteryStatus",
                     !.unusable = (resp.kind # "object" \/ resp.nums = EmptyObj),
                     !.status = out.status, !.battery = out.value]
        /\ UNCHANGED <<performanceMetrics, serverTotals>>

ReadTrades(resp) ==
    LET out == fetchTradeHistory(resp)
    IN  /\ rd' = [NoRead EXCEPT !.fn = "fetchTradeHistory",
                     !.unusable = (resp.kind # "array"),
                     !.status = out.status, !.trades = out.value]
        /\ UNCHANGED <<performanceMetrics, serverTotals>>

\* the effect of the performance tab: fetchMetrics()
MetricsEffect(resp) ==
    LET out == fetchPerformanceMetrics(resp)
    IN  /\ rd' = [NoRead EXCEPT !.fn = "fetchPerformanceMetrics",
                     !.unusable = (resp.kind # "object" \/ resp.data = EmptyObj),
                     !.status = out.status, !.metrics = out.value]
        /\ IF out.status = "resolved"
           THEN performanceMetrics' =
                    [k \in TotalKeys |-> OrDefault(Get(out.value, StateSourceKey(k)), 0)]
           ELSE UNCHANGED performanceMetrics
        /\ serverTotals' =
              IF resp.kind = "object" /\ resp.data # EmptyObj
              THEN [set |-> TRUE, totals |-> [k \in TotalKeys |-> resp.data[k]]]
              ELSE NoTotals

----------------------------------------------------------------------------
(***************************************************************************)
(* usePriceData (hooks/useApi.ts).  A range stands for a startDate/endDate *)
(* pair; time is counted in units of 100 ms.                               *)
(***************************************************************************)
FollowUpDelay == 1        \* setTimeout(() => fetchData(), 100)
Ranges  == {"r1", "r2"}
NoRange == ""

\* faulty variant: a call never waits for the running fetch
ShouldQueue_Never(fetching) == FALSE

\* if (fetchingRef.current) { queuedFetchRef.current = true; return; }
ShouldQueue(fetching) == fetching

\* Array.isArray(result) && result.length > 0
GotData(result) == ~result.isNull /\ Len(result.rows) > 0

\* what fetchPriceData(startDate, endDate) resolves with: rows for the range
\* it was called with, or the empty fallback
PriceResults(range) == {MkData(<<range>>, <<"t">>), generateSamplePriceData}

FollowUp(range, wanted, n, due) == [range |-> range, wanted |-> wanted, n |-> n, due |-> due]

HookInit ==
    /\ hkRange = "r1"
    /\ fetchingRef = TRUE
    /\ queuedFetchRef = FALSE
    /\ hkInFlight = <<"r1">>
    /\ hkFollowUps = << >>
    /\ hkData = NoRange
    /\ hkError = FALSE
    /\ hkThrottled = FALSE
    /\ hkQueuedRange = NoRange
    /\ hkQueuedCount = 0
    /\ hkLast = "mount"

\* fetchData() of the render whose startDate/endDate are `range`, up to its await
CallFetchData(range) ==
    IF ShouldQueue(fetchingRef)
    THEN /\ queuedFetchRef' = TRUE
         /\ hkQueuedRange' = range
         /\ hkQueuedCount' = IF hkQueuedCount < MaxQueued THEN hkQueuedCount + 1
                             ELSE hkQueuedCount
         /\ UNCHANGED <<fetchingRef, hkInFlight, hkError>>
    ELSE /\ fetchingRef' = TRUE
         /\ hkError' = FALSE
         /\ hkInFlight' = Append(hkInFlight, range)
         /\ UNCHANGED <<queuedFetchRef, hkQueuedRange, hkQueuedCount>>

\* the component passes a new startDate/endDate: fetchData and refetch are
\* created anew and the effect calls fetchData()
HkSetRange(range) ==
    /\ range # hkRange
    /\ hkRange' = range
    /\ hkThrottled' = FALSE
    /\ CallFetchData(range)
    /\ hkLast' = "effect"
    /\ UNCHANGED <<hkFollowUps, hkData>>

\* refetch(): passes the throttle at most once per 300 s
HkRefetch ==
    /\ ~hkThrottled
    /\ hkThrottled' = TRUE
    /\ CallFetchData(hkRange)
    /\ hkLast' = "refetch"
    /\ UNCHANGED <<hkRange, hkFollowUps, hkData>>

\* 300 s have passed since the last refetch() that went through
HkThrottleOver ==
    /\ hkThrottled
    /\ hkThrottled' = FALSE
    /\ hkLast' = "throttle"
    /\ UNCHANGED <<hkRange, fetchingRef, queuedFetchRef, hkInFlight, hkFollowUps, hkData,
                   hkError, hkQueuedRange, hkQueuedCount>>

RemoveAt(s, i) == SubSeq(s, 1, i - 1) \o SubSeq(s, i + 1, Len(s))

\* fetchPriceData settles: the rest of the try block and the finally block
HkFetchDone(i, result) ==
    /\ i \in 1..Len(hkInFlight)
    /\ result \in PriceResults(hkInFlight[i])
    /\ queuedFetchRef => Len(hkFollowUps) < MaxFollowUps
    /\ hkInFlight' = RemoveAt(hkInFlight, i)
    /\ IF GotData(result)
       THEN hkData' = result.q[1] /\ UNCHANGED hkError
       ELSE hkError' = TRUE /\ UNCHANGED hkData
    /\ fetchingRef' = FALSE
    /\ queuedFetchRef' = FALSE
    /\ hkFollowUps' = IF queuedFetchRef
                      THEN Append(hkFollowUps,
                                  FollowUp(hkInFlight[i], hkQueuedRange, hkQueuedCount,
                                           FollowUpDelay))
                      ELSE hkFollowUps
    /\ hkQueuedCount' = 0
    /\ hkLast' = "done"
    /\ UNCHANGED <<hkRange, hkThrottled, hkQueuedRange>>

\* 100 ms pass; a timer that is due fires first
HkTick ==
    /\ hkFollowUps # << >>
    /\ \A i \in 1..Len(hkFollowUps) : hkFollowUps[i].due > 0
    /\ hkFollowUps' = [i \in 1..Len(hkFollowUps) |->
                          [hkFollowUps[i] EXCEPT !.due = @ - 1]]
    /\ hkLast' = "tick"
    /\ UNCHANGED <<hkRange, fetchingRef, queuedFetchRef, hkInFlight, hkData, hkError,
                   hkThrottled, hkQueuedRange, hkQueuedCount>>

\* the follow-up timer fires: fetchData() of the render that ran the fetch
HkFollowUpFire ==
    /\ hkFollowUps # << >>
    /\ hkFollowUps[1].due = 0
    /\ hkFollowUps' = Tail(hkFollowUps)
    /\ CallFetchData(hkFollowUps[1].range)
    /\ hkLast' = "followup"
    /\ UNCHANGED <<hkRange, hkData, hkThrottled>>

----------------------------------------------------------------------------
(***************************************************************************)
(* The simulated battery of the dashboard (pages/Dashboard.tsx).  Levels   *)
(* are percentages; energy is counted in units of 0.02 MWh, so that the    *)
(* usable capacity of 2.0 MWh is 100 units.  Of a history entry only the   *)
(* level is kept, of a trade its type and quantity.                        *)
(***************************************************************************)
InitialLevel   == 50      \* level: 50
HistoryLength  == 24      \* Array.from({ length: 24 }, ...)
UsableCapacity == 100     \* capacity.usable: 2.0
InitialTrades  == 10      \* Array.from({ length: 10 }, ...)
HistoryKept    == 23      \* prev.history.slice(-23)
TradesKept     == 9       \* prev.slice(0, 9)
ButtonQuantity == 500     \* updateBatteryLevel('buy', 10)
BatteryActions == {"buy", "sell"}
BatteryQuantities == {0, 7, 30, ButtonQuantity}

Min(a, b) == IF a < b THEN a ELSE b
Max(a, b) == IF a > b THEN a ELSE b

\* faulty variant: the level is not limited
Clamp_Open(x) == x

\* Math.max(0, Math.min(100, x))
Clamp(x) == Max(0, Min(100, x))

\* s.slice(-n)
SliceLast(s, n) == IF Len(s) <= n THEN s ELSE SubSeq(s, Len(s) - n + 1, Len(s))

\* s.slice(0, n)
SliceFirst(s, n) == IF Len(s) <= n THEN s ELSE SubSeq(s, 1, n)

MkTrade(type, quantity) == [type |-> type, quantity |-> quantity]

\* the updater passed to setBatteryState
NewLevel(prev, action, quantity) ==
    Clamp(IF action = "buy"
          THEN prev.level + (quantity * 100) \div prev.capacity.usable
          ELSE prev.level - (quantity * 100) \div prev.capacity.usable)

NewBatteryState(prev, action, quantity) ==
    [prev EXCEPT !.level = NewLevel(prev, action, quantity),
                 !.history = SliceLast(prev.history, HistoryKept) \o
                             <<NewLevel(prev, action, quantity)>>]

\* the updater passed to setTrades
NewTrades(prev, action, quantity) ==
    <<MkTrade(action, quantity)>> \o SliceFirst(prev, TradesKept)

BatteryInit ==
    /\ batteryState = [level |-> InitialLevel,
                       history |-> [i \in 1..HistoryLength |-> InitialLevel],
                       capacity |-> [usable |-> UsableCapacity]]
    /\ trades = << >>
    /\ batteryActionLoading = FALSE
    /\ bsPending = << >>
    /\ bsCalls = 0
    /\ dashStage = "constructed"

\* the mount effect: setTrades(initialTrades)
DashMount ==
    /\ dashStage = "constructed"
    /\ dashStage' = "mounted"
    /\ trades' = [i \in 1..InitialTrades |-> MkTrade("buy", 10)]
    /\ UNCHANGED <<batteryState, batteryActionLoading, bsPending, bsCalls>>

\* updateBatteryLevel(action, quantity) up to its await of the 500 ms timer
UpdateBatteryLevelCall(action, quantity) ==
    /\ dashStage = "mounted"
    /\ bsCalls < MaxBsCalls
    /\ bsCalls' = bsCalls + 1
    /\ batteryActionLoading' = TRUE
    /\ bsPending' = Append(bsPending, [action |-> action, quantity |-> quantity])
    /\ UNCHANGED <<batteryState, trades, dashStage>>

\* the 500 ms timer of the oldest waiting call fires: both updaters run and
\* the finally block clears the loading flag.  When the selected date and
\* time do not form a date, toISOString() throws inside the updater, no
\* state is committed and the component tree is torn down.
UpdateBatteryLevelResume(windowValid) ==
    /\ dashStage = "mounted"
    /\ bsPending # << >>
    /\ bsPending' = Tail(bsPending)
    /\ batteryActionLoading' = FALSE
    /\ LET call == Head(bsPending)
       IN  IF windowValid
           THEN /\ batteryState' = NewBatteryState(batteryState, call.action, call.quantity)
                /\ trades' = NewTrades(trades, call.action, call.quantity)
                /\ dashStage' = dashStage
           ELSE /\ dashStage' = "crashed"
                /\ UNCHANGED <<batteryState, trades>>
    /\ UNCHANGED bsCalls

----------------------------------------------------------------------------
Init == AuthInit /\ CacheInit /\ SchedInit /\ OrderInit /\ TimerInit /\ ProviderInit
        /\ ReadsInit /\ HookInit /\ BatteryInit

vars == <<authVars, cacheVars, schedVars, orderVars, timerVars, providerVars,
          readVars, hookVars, batteryVars>>

otherThanAuth  == <<cacheVars, schedVars, orderVars, timerVars, providerVars, readVars, hookVars, batteryVars>>
otherThanCache == <<authVars, schedVars, orderVars, timerVars, providerVars, readVars, hookVars, batteryVars>>
otherThanSched == <<authVars, cacheVars, orderVars, timerVars, providerVars, readVars, hookVars, batteryVars>>
otherThanOrder == <<authVars, cacheVars, schedVars, timerVars, providerVars, readVars, hookVars, batteryVars>>
otherThanTimer == <<authVars, cacheVars, schedVars, orderVars, providerVars, readVars, hookVars, batteryVars>>
otherThanProvider == <<authVars, cacheVars, schedVars, orderVars, timerVars, readVars, hookVars, batteryVars>>
otherThanReads == <<authVars, cacheVars, schedVars, orderVars, timerVars, providerVars, hookVars, batteryVars>>
otherThanHook == <<authVars, cacheVars, schedVars, orderVars, timerVars, providerVars, readVars, batteryVars>>
otherThanBattery == <<authVars, cacheVars, schedVars, orderVars, timerVars, providerVars, readVars, hookVars>>

ALogin          == Login /\ UNCHANGED otherThanAuth
AHandleLogout   == (\E t \in BOOLEAN : HandleLogout(t)) /\ UNCHANGED otherThanAuth
ASend           == (\E r \in Reqs : Send(r)) /\ UNCHANGED otherThanAuth
ARespond2xx     == (\E r \in Reqs : Respond2xx(r)) /\ UNCHANGED otherThanAuth
ARespondError   == (\E r \in Reqs, s \in {401, 500} : RespondError(r, s)) /\ UNCHANGED otherThanAuth
ARefreshDone    == (\E r \in Reqs, res \in -2..(MaxTokens + 1) : RefreshDone(r, res)) /\ UNCHANGED otherThanAuth
APageUnload     == PageUnload /\ UNCHANGED otherThanAuth
AExtendStart    == ExtendStart /\ UNCHANGED otherThanAuth
AExtendDone     == (\E res \in -2..(MaxTokens + 1) : ExtendDone(res)) /\ UNCHANGED otherThanAuth

NextAuth ==
    \/ ALogin \/ AHandleLogout \/ ASend \/ ARespond2xx \/ ARespondError
    \/ ARefreshDone \/ APageUnload \/ AExtendStart \/ AExtendDone

SpecAuth == Init /\ [][NextAuth]_vars

CTick              == Tick /\ UNCHANGED otherThanCache
CFetchPriceData    == (\E c \in Calls, s \in StartDates, e \in EndDates :
                          FetchPriceData(c, s, e)) /\ UNCHANGED otherThanCache
CPrimaryResponse   == (\E c \in Calls, b \in Bodies : PrimaryResponse(c, b))
                      /\ UNCHANGED otherThanCache
CSecondaryResponse == (\E c \in Calls, b \in Bodies : SecondaryResponse(c, b))
                      /\ UNCHANGED otherThanCache

NextCache == CTick \/ CFetchPriceData \/ CPrimaryResponse \/ CSecondaryResponse

SpecCache == Init /\ [][NextCache]_vars

STick         == SFTick /\ UNCHANGED otherThanSched
SFetchSuccess == SFFetchSuccess /\ UNCHANGED otherThanSched
SFetchFail    == SFFetchFail(TRUE) /\ UNCHANGED otherThanSched
SRender       == SFRender /\ UNCHANGED otherThanSched
STimerFire    == SFTimerFire /\ UNCHANGED otherThanSched
SRefetch      == SFRefetch /\ UNCHANGED otherThanSched
SUnmount      == SFUnmount /\ UNCHANGED otherThanSched

NextSched ==
    \/ STick \/ SFetchSuccess \/ SFetchFail \/ SRender \/ STimerFire
    \/ SRefetch \/ SUnmount

SpecSched == Init /\ [][NextSched]_vars

OBuy           == handleBuyOrder /\ UNCHANGED otherThanOrder
OSell          == handleSellOrder /\ UNCHANGED otherThanOrder
OTradeResponse == (\E ok \in BOOLEAN : TradeResponse(ok)) /\ UNCHANGED otherThanOrder
OSetBuy        == (\E q \in Quantities : SetBuyQuantity(q)) /\ UNCHANGED otherThanOrder
OSetSell       == (\E q \in Quantities : SetSellQuantity(q)) /\ UNCHANGED otherThanOrder
OSetTime       == (\E w \in Instants : SetExecutionTime(w)) /\ UNCHANGED otherThanOrder
OSetDuration   == (\E d \in Durations : SetDuration(d)) /\ UNCHANGED otherThanOrder
OSetBattery    == (\E l \in Levels : SetBatteryLevel(l)) /\ UNCHANGED otherThanOrder
OTick          == FormTick /\ UNCHANGED otherThanOrder

NextOrder ==
    \/ OBuy \/ OSell \/ OTradeResponse \/ OSetBuy \/ OSetSell \/ OSetTime \/ OSetDuration
    \/ OSetBattery \/ OTick

SpecOrder == Init /\ [][NextOrder]_vars

TLogin   == (\E l \in Lifetimes : TimerLogin(l)) /\ UNCHANGED otherThanTimer
TExtend  == (\E l \in Lifetimes : TimerExtend(l)) /\ UNCHANGED otherThanTimer
TAdvance == TimerAdvance /\ UNCHANGED otherThanTimer
TTick    == TimerTick /\ UNCHANGED otherThanTimer
TLogout  == TimerLogout /\ UNCHANGED otherThanTimer

NextTimer == TLogin \/ TExtend \/ TAdvance \/ TTick \/ TLogout

SpecTimer == Init /\ [][NextTimer]_vars

POpen      == (\E u \in StoredAtStart, p \in StartPaths : ApOpen(u, p))
              /\ UNCHANGED otherThanProvider
PLoad      == ApLoad /\ UNCHANGED otherThanProvider
PSync      == ApSyncEffect /\ UNCHANGED otherThanProvider
PLogin     == (\E e \in {apNow + ShortLife, FarExp}, r \in Roles : ApLogin(e, r))
              /\ UNCHANGED otherThanProvider
PActivity  == ApActivity /\ UNCHANGED otherThanProvider
PExtendClick == ApExtendClick /\ UNCHANGED otherThanProvider
PExtendResponse == (\E ok \in BOOLEAN, e \in {apNow + ShortLife, FarExp} :
                       ApExtendResponse(ok, e)) /\ UNCHANGED otherThanProvider
PLogoutClick == ApLogoutClick /\ UNCHANGED otherThanProvider
PAdvance   == ApAdvance /\ UNCHANGED otherThanProvider
PIntervalFire == ApIntervalFire /\ UNCHANGED otherThanProvider
PTimerExpiry == ApTimerExpiry /\ UNCHANGED otherThanProvider
PReload    == ApReload /\ UNCHANGED otherThanProvider
PRender    == (\E r \in RequiredRoles : ApRenderProtected(r)) /\ UNCHANGED otherThanProvider

NextProvider ==
    \/ POpen \/ PLoad \/ PSync \/ PLogin \/ PActivity \/ PExtendClick \/ PExtendResponse
    \/ PLogoutClick \/ PAdvance \/ PIntervalFire \/ PTimerExpiry \/ PReload \/ PRender

SpecProvider == Init /\ [][NextProvider]_vars

RPrice   == (\E s \in StartDates, e \in {Undefined}, hit \in BOOLEAN, b1 \in Bodies, b2 \in Bodies :
                ReadPrice(s, e, hit, b1, b2)) /\ UNCHANGED otherThanReads
RBattery == (\E r \in BatteryResps : ReadBattery(r)) /\ UNCHANGED otherThanReads
RTrades  == (\E r \in TradeResps : ReadTrades(r)) /\ UNCHANGED otherThanReads
RMetrics == (\E r \in MetricsResps : MetricsEffect(r)) /\ UNCHANGED otherThanReads

NextReads == RPrice \/ RBattery \/ RTrades \/ RMetrics

SpecReads == Init /\ [][NextReads]_vars

HSetRange     == (\E r \in Ranges : HkSetRange(r)) /\ UNCHANGED otherThanHook
HRefetch      == HkRefetch /\ UNCHANGED otherThanHook
HThrottleOver == HkThrottleOver /\ UNCHANGED otherThanHook
HFetchDone    == (\E i \in 1..Len(hkInFlight), b \in BOOLEAN :
                     HkFetchDone(i, IF b THEN MkData(<<hkInFlight[i]>>, <<"t">>)
                                         ELSE generateSamplePriceData))
                 /\ UNCHANGED otherThanHook
HTick         == HkTick /\ UNCHANGED otherThanHook
HFollowUpFire == HkFollowUpFire /\ UNCHANGED otherThanHook

NextHook ==
    \/ HSetRange \/ HRefetch \/ HThrottleOver \/ HFetchDone \/ HTick \/ HFollowUpFire

SpecHook == Init /\ [][NextHook]_vars

BMount  == DashMount /\ UNCHANGED otherThanBattery
BCall   == (\E a \in BatteryActions, q \in BatteryQuantities : UpdateBatteryLevelCall(a, q))
           /\ UNCHANGED otherThanBattery
BResume == (\E ok \in BOOLEAN : UpdateBatteryLevelResume(ok)) /\ UNCHANGED otherThanBattery

NextBattery == BMount \/ BCall \/ BResume

SpecBattery == Init /\ [][NextBattery]_vars

----------------------------------------------------------------------------
(***************************************************************************)
(* Claims about the api client                                             *)
(***************************************************************************)

C1_Counts ==
    \A r \in Reqs : reqs[r].refreshes <= 1 /\ reqs[r].sends <= 2

C1_Step ==
    \A r \in Reqs :
        /\ (reqs[r].st = "refreshing" /\ reqs'[r].rr > 0) =>
              /\ stored' = reqs'[r].rr
              /\ reqs'[r].st = "sent"
              /\ reqs'[r].auth = reqs'[r].rr
              /\ reqs'[r].sends = reqs[r].sends + 1
        /\ (reqs[r].st = "sent" /\ reqs[r].sends = 2) => reqs'[r].st # "refreshing"
        /\ reqs'[r].sends > reqs[r].sends => reqs'[r].sends = reqs[r].sends + 1

\* C1: a request answered with 401 while a user is stored triggers at most
\* one token refresh; when the refresh returns a new access token the
\* refreshed user is stored and the request is re-sent once with that token;
\* a request that was already re-sent is never refreshed again, so no request
\* is sent more than twice.
C1_RefreshOnceResendOnce == [](C1_Counts) /\ [][C1_Step]_vars

\* witness: a request was refreshed, re-sent with the new token, answered
\* with 401 again and rejected
C1_Witness ==
    \E r \in Reqs : /\ reqs[r].sends = 2 /\ reqs[r].rr > 0
                    /\ reqs[r].auth = reqs[r].rr
                    /\ reqs[r].st = "rejected" /\ reqs[r].outcome = "err401"

C7_Step ==
    \A r \in Reqs :
        (reqs[r].st = "refreshing" /\ reqs'[r].rr \in {NullResult, NoTokenUser}) =>
            /\ stored' = NoUser
            /\ hrefPending' = LoginTimeout
            /\ reqs'[r].st = "rejected"
            /\ reqs'[r].outcome = "err401"
            /\ reqs'[r].sends = reqs[r].sends

\* C7: when the token refresh for a 401 fails (refreshToken returns null or
\* a result without access token) the stored user is removed, the browser is
\* sent to /login?timeout=true, the caller gets the 401 error and the
\* request is not re-sent.
C7_RefreshFailureLogsOut == [][C7_Step]_vars

\* witness: a refresh returned data without an access token
C7_Witness ==
    \E r \in Reqs : /\ reqs[r].rr = NoTokenUser /\ reqs[r].st = "rejected"
                    /\ reqs[r].sends = 1 /\ stored = NoUser
                    /\ hrefPending = LoginTimeout

\* C8: after logout() getCurrentUser() returns null until the next
\* successful login()
C8_LogoutTerminatesSession == loggedOut => getCurrentUser = NoUser

C9_Step ==
    \A r \in Reqs :
        (reqs'[r].sends > reqs[r].sends /\ extTok' # NoUser) => reqs'[r].auth = extTok'

\* C9: once extendSession succeeded, every request sent afterwards carries
\* the access token that extendSession obtained
C9_RequestsCarryExtendedToken == [][C9_Step]_vars

----------------------------------------------------------------------------
(***************************************************************************)
(* Claims about fetchPriceData                                             *)
(***************************************************************************)

C2_Step ==
    \A c \in Calls :
        (calls[c].pc \in {"idle", "done"} /\ calls'[c] # calls[c]) =>
            LET hit == calls'[c].pc = "done" /\ calls'[c].http = 0
            IN  /\ hit <=> /\ calls'[c].params = priceDataCache.params
                           /\ now - priceDataCache.timestamp < CacheTTL
                           /\ ~priceDataCache.data.isNull
                /\ hit => calls'[c].result = priceDataCache.data
                /\ ~hit => calls'[c].pc = "primary" /\ calls'[c].http = 1

\* C2: fetchPriceData returns the cached data without any HTTP request
\* exactly when its parameters equal those of the cached entry, less than
\* 5 minutes passed since the entry's timestamp and the entry holds data;
\* otherwise it sends a request to the primary endpoint.
C2_CacheHitIffSameParamsFreshData == [][C2_Step]_vars

\* witness: a call was answered from the cache after time had passed
C2_Witness ==
    \E c \in Calls : /\ calls[c].pc = "done" /\ calls[c].http = 0
                      /\ ~calls[c].result.isNull
                      /\ now > priceDataCache.timestamp

----------------------------------------------------------------------------
(***************************************************************************)
(* Claims about useScheduledFetch                                          *)
(***************************************************************************)
RetryTimerDue == \E t \in timers : t.kind = "retry" /\ t.left = 0

\* C3: after a failed fetch with retries left (component mounted), a retry
\* fetch starts retryDelay later: when the delay has run out the retry timer
\* is still there to start it.
C3_RetryStartsAfterDelay == owed = 0 => RetryTimerDue

C4_Counts == retryCount <= MaxRetries /\ autoRetries <= MaxRetries

C4_Step ==
    (mounted /\ isFetching /\ ~isFetching' /\ sfError' # 0 /\ sfError' # sfError
       /\ retryCount = MaxRetries) =>
        /\ retryCount' = 0
        /\ \A t \in timers' : t.kind # "retry"

\* C4: the retry counter never exceeds maxRetries, a run of failures starts
\* at most maxRetries automatic retries, and a failure with the counter at
\* maxRetries resets the counter to 0 and leaves no retry timer pending.
C4_BoundedRetries == [](C4_Counts) /\ [][C4_Step]_vars

\* witness: the hook gave up (only a failure at maxRetries leaves an error
\* with the counter at 0)
C4_Witness ==
    mounted /\ ~isFetching /\ sfError # 0 /\ retryCount = 0 /\ timers = {}

----------------------------------------------------------------------------
(***************************************************************************)
(* Claims about the order form                                             *)
(***************************************************************************)

\* C5: the body POSTed to /api/trades/execute carries the execution time
\* the user selected
C5_BodyCarriesExecutionTime ==
    lastPost.sent => lastPost.body.Timestamp = lastPost.req.executionTime

C6_Step ==
    (~pendingOrder /\ (pendingOrder' \/ lastAlert' # lastAlert)) =>
        /\ pendingOrder' =>
              LET q == lastPost'.req.quantity
              IN  /\ q \in {buyQuantity, sellQuantity}
                  /\ q # NaN /\ q > 0
                  /\ selectedTimeWindow.when # InvalidDate
                  /\ selectedTimeWindow.when >= formNow + 1
                  /\ selectedTimeWindow.duration \in {"15", "30", "60"}
                  /\ lastPost'.req.type = "sell" =>
                        /\ q = sellQuantity
                        /\ q * 100 <= batteryLevel * CapacityTotal
                  /\ lastPost'.req.type = "buy" => q = buyQuantity
        /\ ~pendingOrder' => (~isSubmitting' /\ lastPost' = lastPost)

\* C6: executeTrade is called only with a quantity greater than 0, an
\* execution time at least 30 seconds ahead, a duration of 15, 30 or 60 and,
\* for a sell, a quantity within the battery's energy; a handler run that
\* sends nothing leaves isSubmitting false.
C6_OrdersValidated == [][C6_Step]_vars

\* witness: a sell order went out and, in another run, a check failed
C6_Witness ==
    /\ lastPost.sent /\ lastPost.req.type = "sell"
    /\ lastAlert = "Execution time must be at least 30 seconds in the future"
    /\ ~isSubmitting /\ ~pendingOrder

----------------------------------------------------------------------------
(***************************************************************************)
(* Claims about SessionTimer                                               *)
(***************************************************************************)

C10_Step ==
    (tickSeq' # tickSeq /\ hasUser /\ tokenExp # 0) =>
        LET remaining == tokenExp - clock
        IN  /\ (0 < remaining /\ remaining <= WarningThreshold * 60) =>
                  (showWarning' /\ timeRemaining' # -1 /\ timeRemaining' # 0)
            /\ remaining > WarningThreshold * 60 =>
                  ~(showWarning' /\ timeRemaining' # -1 /\ timeRemaining' # 0)
            /\ remaining <= 0 =>
                  (logoutCalls' = logoutCalls + 1 /\ ~intervalOn' /\ ~hasUser')
            /\ remaining > 0 => (logoutCalls' = logoutCalls /\ hasUser')

C10_Counts == logoutCalls <= 1 /\ (intervalOn => hasUser /\ tokenExp # 0)

----------------------------------------------------------------------------
(***************************************************************************)
(* Claims about AuthProvider and ProtectedRoute                            *)
(***************************************************************************)
C11_Deadline == apAuth => apNow - apIdleSince <= SessionTimeout + CheckInterval

C11_Step ==
    (apCause # "inactive" /\ apCause' = "inactive") =>
        /\ InactiveTooLong(apNow, apLastActivity)
        /\ apStored' = NullUser /\ apUser' = NullUser /\ ~apAuth'
        /\ apPath' = LoginTimeoutPath

C12_Decoded(u) == u.decodable /\ u.exp # 0

\* C12: after the app has loaded, a stored user whose JWT exp is later than
\* the current time is authenticated without logging in again; a stored user
\* whose token is expired or cannot be decoded has been removed and the app
\* is at /login?timeout=true; with nothing stored the user is unauthenticated
C12_LoginPersists ==
    (apLoad.fresh /\ ~SyncPending) =>
        LET u == apLoad.from
            t == apLoad.at
        IN  /\ (u = NullUser) => (~apAuth /\ apUser = NullUser)
            /\ (u # NullUser /\ C12_Decoded(u) /\ u.exp > t) =>
                   (apAuth /\ apUser = u /\ apStored = u)
            /\ (u # NullUser /\ (~u.decodable \/ (C12_Decoded(u) /\ u.exp <= t))) =>
                   (apStored = NullUser /\ ~apAuth /\ apPath = LoginTimeoutPath)

C12_Witness ==
    /\ apLoad.fresh /\ ~SyncPending
    /\ apLoad.from # NullUser /\ apAuth /\ apUser = apLoad.from

\* C13: ProtectedRoute renders a redirect to /login, never its children,
\* while isAuthenticated is false; with a requiredRole that differs from the
\* current user's user_role it renders a redirect to /
C13_ProtectedRouteGuards ==
    (apView # NoView) =>
        /\ ~apAuth => apView.out = "/login"
        /\ (apAuth /\ apView.required # "" /\ apUser.role # apView.required) =>
               apView.out = "/"
        /\ (apView.out = "children") => apAuth

C13_Witness ==
    /\ apView.required = "admin" /\ apView.out = "/" /\ apAuth
----------------------------------------------------------------------------
(***************************************************************************)
(* Claims about the read operations                                        *)
(***************************************************************************)
\* C14: after a successful metrics fetch the four totals of the
\* performanceMetrics state equal the totals the server returned
C14_TotalsShown ==
    serverTotals.set => \A k \in TotalKeys : performanceMetrics[k] = serverTotals.totals[k]

C15_Fallback ==
    /\ rd.fn = "fetchPriceData" => rd.price.rows = << >> /\ ~rd.price.isNull
    /\ rd.fn = "fetchBatteryStatus" =>
          /\ rd.battery.level = 0 /\ rd.battery.total = 25 /\ rd.battery.usable = 20
          /\ rd.battery.charging_state = "idle"
    /\ rd.fn = "fetchTradeHistory" => rd.trades = << >>
    /\ rd.fn = "fetchPerformanceMetrics" => \A k \in MetricsKeys : rd.metrics[k] = 0

\* C15: fetchPriceData, fetchBatteryStatus, fetchTradeHistory and
\* fetchPerformanceMetrics never reject; when the request fails or returns
\* unusable data each resolves with its fixed fallback value
C15_ReadsNeverReject ==
    (rd.fn # "") => (rd.status = "resolved" /\ (rd.unusable => C15_Fallback))

C15_Witness ==
    /\ rd.fn = "fetchTradeHistory" /\ rd.unusable /\ rd.status = "resolved"

----------------------------------------------------------------------------
(***************************************************************************)
(* Claims about usePriceData                                               *)
(***************************************************************************)
C16_Step ==
    (Len(hkFollowUps') < Len(hkFollowUps) /\ Len(hkInFlight') > Len(hkInFlight)) =>
        hkInFlight'[Len(hkInFlight')] = hkFollowUps[1].wanted

\* C16: the fetch that was queued while another one ran is executed after
\* that one finishes and fetches the date range that was requested when it
\* was queued
C16_QueuedFetchUsesQueuedRange == [][C16_Step]_vars

C17_OneInFlight == Len(hkInFlight) <= 1

C17_DoneStep ==
    (Len(hkInFlight') < Len(hkInFlight)) =>
        /\ ~queuedFetchRef'
        /\ IF hkQueuedCount > 0
           THEN /\ Len(hkFollowUps') = Len(hkFollowUps) + 1
                /\ hkFollowUps'[Len(hkFollowUps')].due = FollowUpDelay
           ELSE hkFollowUps' = hkFollowUps

C17_FireStarts ==
    (Len(hkFollowUps') < Len(hkFollowUps)) => Len(hkInFlight') = Len(hkInFlight) + 1

C17_FireStartsOrQueues ==
    (Len(hkFollowUps') < Len(hkFollowUps)) =>
        IF Len(hkInFlight) = 0 THEN Len(hkInFlight') = 1
        ELSE queuedFetchRef' /\ hkInFlight' = hkInFlight

\* C17 as stated: never more than one fetchPriceData call in flight; the
\* requests that arrive while one is in flight are coalesced into exactly one
\* follow-up, and that follow-up starts a fetch 100 ms after the completion
C17_CoalescedAsStated ==
    [](C17_OneInFlight) /\ [][C17_DoneStep /\ C17_FireStarts]_vars

\* C17: never more than one fetchPriceData call in flight; the requests that
\* arrive while one is in flight are coalesced into exactly one follow-up call
\* 100 ms after the completion, which starts a fetch unless another fetch has
\* been started in the meantime, and is queued behind that one otherwise
C17_Coalesced ==
    [](C17_OneInFlight) /\ [][C17_DoneStep /\ C17_FireStartsOrQueues]_vars

C17_Witness ==
    /\ hkFollowUps # << >> /\ hkFollowUps[1].n >= 2 /\ hkInFlight = << >>

\* C18: whenever the price cache holds rows under parameters P, the rows were
\* taken from the response to a request whose query was P
C18_CacheHoldsDataForItsParams ==
    (~priceDataCache.data.isNull /\ priceDataCache.data.rows # << >>) =>
        priceDataCache.data.q = Stringify(priceDataCache.params)

\* C19: after any sequence of updateBatteryLevel calls with quantity >= 0 the
\* battery level is within [0, 100], the battery history holds at most 24
\* entries and the trades list holds at most 10 entries
C19_BatteryBounds ==
    /\ batteryState.level >= 0 /\ batteryState.level <= 100
    /\ \A i \in 1..Len(batteryState.history) :
           batteryState.history[i] >= 0 /\ batteryState.history[i] <= 100
    /\ Len(batteryState.history) <= 24
    /\ Len(trades) <= 10

C19_Witness ==
    /\ bsCalls >= 2 /\ bsPending = << >> /\ dashStage = "mounted"
    /\ batteryState.level = 0
    /\ batteryState.history[Len(batteryState.history) - 1] = 100
    /\ Len(batteryState.history) = 24
    /\ Len(trades) = 10 /\ trades[1].type = "sell" /\ trades[2].type = "buy"
====
